---- MODULE Spec2Model ----
(***************************************************************************)
(* The execution-and-caching pipeline of a machine                        *)
(* (src/lib/Machine.prototype.exec.js, src/lib/Machine.js).               *)
(*                                                                         *)
(* One machine instance with its shared private state (_cacheSettings),   *)
(* a cache store partitioned by hash, a clock, and two or three runs of   *)
(* exec() whose asynchronous steps interleave.                            *)
(***************************************************************************)
EXTENDS Integers, FiniteSets, Sequences, TLC

\* ---------------------------------------------------------------- bounds
MaxTime   == 3      \* the clock stops advancing here
MaxOld    == 1      \* largest caller-supplied maxOldEntriesBuffer
MaxFaults == 1      \* failures of calculateHash and of store calls, in all

\* ------------------------------------------------------------- constants
StartTime  == 2
DefaultTtl == 1     \* 3 * 60 * 60 * 1000 ms, as one unit of the clock
DefaultMaxOldEntriesBuffer == 0

Runs      == {1, 2}             \* a run of exec() and one that overlaps it
LaterRun  == 3                  \* a run started once those two are over
AllRuns   == Runs \cup {LaterRun}
Unset     == -1                 \* a numeric field that is undefined
Undefined == "undefined"        \* a value that is undefined
NoErr     == "none"

Inputs == {"a", "b"}            \* configured input values of a run
\* what the caller has configured under the reserved input `_cache`: nothing,
\* a falsy value (false, 0, ''), or an object of settings
CacheInputs == {"absent", "falsy", "exitError"}
\* what the machine's fn does: success with a result or with no value, or
\* error with an error
Traversals == { <<"success", "d3">>, <<"success", Undefined>>, <<"error", "e1">> }
Exits  == {"success", "error"}  \* the caller's configured exits
Ops    == {"find", "create", "count", "destroy"}

VARIABLES
  now,        \* the clock's last reading (new Date(), createdAt)
  store,      \* the cache model's entries: [id, hash, data, createdAt]
  settings,   \* this._cacheSettings, one object shared by all runs
  pc,         \* per run: idle, hash, find, fn, create, done, threw
  gc,         \* per run's garbage collection: none, count, destroy, done
  run,        \* per run: closure variables and what the run has done
  faults,     \* failures injected so far
  configuredInputs,  \* this._configuredInputs, one object shared by all runs
  builtSettings      \* the cache settings the instance was built with

vars == <<now, store, settings, pc, gc, run, faults, configuredInputs,
          builtSettings>>

\* ------------------------------------------------------------ the store
\* Entries present before any run: the store is shared and outlives runs.
E1 == [id |-> 1, hash |-> "hA", data |-> "d1", createdAt |-> 0]
E2 == [id |-> 2, hash |-> "hA", data |-> "d2", createdAt |-> 1]
E3 == [id |-> 3, hash |-> "hA", data |-> "d1", createdAt |-> 2]
E4 == [id |-> 4, hash |-> "hB", data |-> "d2", createdAt |-> 1]

InitStores == { {}, {E1, E2, E3, E4} }

\* calculateHash: a stable identifier of the configured inputs.
HashOf(inp) == IF inp = "a" THEN "hA" ELSE "hB"

\* where: { createdAt: { '>': expirationDate }, hash: hash }
FindWhere(e, h, cut) == e.hash = h /\ e.createdAt > cut

\* sort: 'createdAt DESC', limit: 1  -- the possible first entries
FindResult(S, h, cut) ==
  LET m == {e \in S : FindWhere(e, h, cut)}
  IN  {e \in m : \A f \in m : f.createdAt <= e.createdAt}

\* where: { createdAt: { '<=': expirationDate }, hash: hash }
StaleWhere(e, h, cut) == e.hash = h /\ e.createdAt <= cut

CountResult(S, h, cut) == Cardinality({e \in S : StaleWhere(e, h, cut)})

\* sort: 'createdAt DESC', skip: n  -- the possible sets of entries kept
DestroyKeeps(S, h, cut, skip) ==
  LET m == {e \in S : StaleWhere(e, h, cut)}
  IN  IF Cardinality(m) <= skip THEN {m}
      ELSE {k \in SUBSET m :
              /\ Cardinality(k) = skip
              /\ \A e \in k, f \in m \ k : f.createdAt <= e.createdAt}

\* ------------------------------------------------------------- settings
NoSettings ==
  [present |-> FALSE, caps |-> {}, ttl |-> Unset,
   maxOldEntriesBuffer |-> Unset, exit |-> "unset", expirationDate |-> Unset]

InitSettings ==
  {NoSettings}
  \cup {[NoSettings EXCEPT !.present = TRUE, !.caps = c] :
          c \in {{"find"}, {"find", "create"}}}
  \cup {[NoSettings EXCEPT !.present = TRUE, !.caps = Ops,
                           !.maxOldEntriesBuffer = b] :
          b \in {Unset} \cup 1..MaxOld}
  \cup {[NoSettings EXCEPT !.present = TRUE, !.caps = Ops, !.exit = "error"]}

\* faulty variant: the validation forgets to look for create
CacheValidFindOnly(s) == s.present /\ "find" \in s.caps

\* _.isObject(_cache) && _.isObject(_cache.model) && find && create
CacheValid(s) == s.present /\ {"find", "create"} \subseteq s.caps

\* _.defaults(_cache, {ttl, maxOldEntriesBuffer, exit}), then expirationDate
Normalize(s, t) ==
  LET d == [s EXCEPT
              !.ttl = IF @ = Unset THEN DefaultTtl ELSE @,
              !.maxOldEntriesBuffer =
                 IF @ = Unset THEN DefaultMaxOldEntriesBuffer ELSE @,
              !.exit = IF @ = "unset" THEN "success" ELSE @]
  IN  [d EXCEPT !.expirationDate = t - d.ttl]

\* the settings an object under `_cache` carries (none carries a model)
Override(c) ==
  [ttl |-> Unset, maxOldEntriesBuffer |-> Unset,
   exit |-> IF c = "exitError" THEN "error" ELSE "unset"]

\* _.extend(this._cacheSettings, this._configuredInputs._cache): the keys of
\* the source are copied onto the shared object.  Without an object to copy
\* onto, lodash up to 3 returns undefined and lodash 4 a new object.
Extend(s, o) ==
  LET m == [s EXCEPT
              !.present = TRUE,
              !.ttl = IF o.ttl = Unset THEN @ ELSE o.ttl,
              !.maxOldEntriesBuffer =
                 IF o.maxOldEntriesBuffer = Unset THEN @ ELSE o.maxOldEntriesBuffer,
              !.exit = IF o.exit = "unset" THEN @ ELSE o.exit]
  IN  IF s.present THEN {m} ELSE {s, m}

\* _.extend(this._configuredInputs, _.cloneDeep(configuredInputs)): the keys
\* given replace the configured ones, the others stay
SetInputs(cur, inp) == [cur EXCEPT !.val = inp]

\* if (this._configuredInputs._cache)
Truthy(c) == c \notin {"absent", "falsy"}

\* delete this._configuredInputs._cache, inside the if
Stripped(ci) == IF Truthy(ci.cache) THEN [ci EXCEPT !.cache = "absent"] ELSE ci

NoInputs == [val |-> "none", cache |-> "absent"]

\* ------------------------------------------------------------------ runs
NoEntry == [id |-> 0, hash |-> Undefined, data |-> Undefined, createdAt |-> Unset]

InitRun ==
  [input |-> "a", cacheInput |-> "absent", fnInputs |-> NoInputs,
   startSettings |-> NoSettings, enabled |-> FALSE, hash |-> Undefined, cutoff |-> Unset,
   findCut |-> Unset, countHash |-> Undefined, countCut |-> Unset,
   destroyCut |-> Unset, destroySkip |-> Unset, cacheExit |-> "none",
   findRes |-> "none", found |-> NoEntry,
   travExit |-> "none", travData |-> Undefined,
   createHash |-> Undefined, createData |-> Undefined, createRes |-> "none",
   delivered |-> <<>>, warns |-> {}, threw |-> FALSE,
   nFn |-> 0, nFind |-> 0, nCreate |-> 0, nCount |-> 0, nDestroy |-> 0,
   staleAtMiss |-> {}]

Init ==
  /\ now = StartTime
  /\ store \in InitStores
  /\ settings \in InitSettings
  /\ pc = [r \in Runs |-> "idle"]
  /\ gc = [r \in Runs |-> "none"]
  /\ run = [r \in Runs |-> InitRun]
  /\ faults = 0
  /\ configuredInputs = NoInputs
  /\ builtSettings = settings

\* the same instance with a full store, cold, and a third run to come
InitLater ==
  /\ now = StartTime
  /\ store = {}
  /\ settings = [NoSettings EXCEPT !.present = TRUE, !.caps = Ops]
  /\ pc = [r \in AllRuns |-> "idle"]
  /\ gc = [r \in AllRuns |-> "none"]
  /\ run = [r \in AllRuns |-> InitRun]
  /\ faults = 0
  /\ configuredInputs = NoInputs
  /\ builtSettings = settings

\* the instance as built, then configured with something under `_cache`
InitOverride ==
  /\ now = StartTime
  /\ store \in InitStores
  /\ settings \in InitSettings
  /\ pc = [r \in Runs |-> "idle"]
  /\ gc = [r \in Runs |-> "none"]
  /\ run = [r \in Runs |-> InitRun]
  /\ faults = 0
  /\ configuredInputs \in {[NoInputs EXCEPT !.cache = c] : c \in CacheInputs \ {"absent"}}
  /\ builtSettings = settings

\* a run and its garbage collection are over
Over(q) == pc[q] \in {"done", "threw"} /\ gc[q] \in {"none", "done"}

\* a reading of the clock: never earlier than the last one
Clock(t) == t \in now..MaxTime /\ now' = t

\* an asynchronous call answers without an error, or (within the budget of
\* failures) with one
Outcome(ok) ==
  /\ ~ok => faults < MaxFaults
  /\ faults' = IF ok THEN faults ELSE faults + 1

Upd(r, rec) == run' = [run EXCEPT ![r] = rec]
Goto(r, l)  == pc' = [pc EXCEPT ![r] = l]
GcGoto(r, l) == gc' = [gc EXCEPT ![r] = l]

\* self.warn(err): onWarn or console.error, never an exit of the caller
Warn(rec, err) == IF err = NoErr THEN rec ELSE [rec EXCEPT !.warns = @ \cup {err}]

\* faulty variant: the reduce wraps the exits that are not the cacheable one
InterceptedExitOther(rec) ==
  IF rec.enabled /\ rec.hash # Undefined /\ settings.exit \in Exits
  THEN CHOOSE x \in Exits : x # settings.exit ELSE "none"

\* the exit the reduce over _configuredExits wraps, if any
InterceptedExit(rec) ==
  IF rec.enabled /\ rec.hash # Undefined /\ settings.exit \in Exits
  THEN settings.exit ELSE "none"

\* function _cacheNotAnOption_justRunMachine (err): warn, launch the garbage
\* collector's count, intercept the exits, run the machine -- one callback.
JustRunMachine(r, rec0, err, ins) ==
  LET rec == Warn(rec0, err) IN
  IF rec.enabled /\ "count" \notin settings.caps
  THEN \* _cache.model.count is not a function: the callback throws here
       /\ Upd(r, [rec EXCEPT !.threw = TRUE])
       /\ Goto(r, "threw")
       /\ UNCHANGED gc
  ELSE /\ Upd(r, [rec EXCEPT
                    !.countHash = IF rec.enabled THEN rec.hash ELSE @,
                    !.countCut = IF rec.enabled THEN settings.expirationDate ELSE @,
                    !.nCount = IF rec.enabled THEN @ + 1 ELSE @,
                    !.staleAtMiss =
                       {e \in store : StaleWhere(e, rec.hash, rec.cutoff)},
                    !.cacheExit = InterceptedExit(rec),
                    !.fnInputs = ins,
                    !.nFn = @ + 1])
       /\ Goto(r, "fn")
       /\ GcGoto(r, IF rec.enabled THEN "count" ELSE "none")

\* Machineºprototypeºexec up to the call of calculateHash, after the caller
\* has configured the inputs of the run
Exec(r, inp) ==
  /\ r \in DOMAIN pc
  /\ pc[r] = "idle"
  /\ \A q \in Runs : q < r => pc[q] # "idle"
  /\ r = LaterRun => \A q \in Runs : Over(q)
  /\ LET ci == SetInputs(configuredInputs, inp) IN
     /\ configuredInputs' = Stripped(ci)
     /\ \E s \in IF Truthy(ci.cache) THEN Extend(settings, Override(ci.cache))
                                    ELSE {settings} :
          LET rec == [run[r] EXCEPT !.input = inp, !.cacheInput = ci.cache] IN
          IF CacheValid(s)
          THEN /\ \E t \in now..MaxTime :
                    /\ Clock(t)
                    /\ settings' = Normalize(s, t)
               /\ Upd(r, [rec EXCEPT !.enabled = TRUE,
                                     !.startSettings = settings',
                                     !.cutoff = settings'.expirationDate])
               /\ Goto(r, "hash")
               /\ UNCHANGED gc
          ELSE /\ settings' = s
               /\ JustRunMachine(r, [rec EXCEPT !.startSettings = s], NoErr,
                                 configuredInputs')
               /\ UNCHANGED now
  /\ UNCHANGED <<store, faults, builtSettings>>

\* calculateHash's callback: give up on an error, else issue the find
HashAnswer(r, ok) ==
  /\ r \in DOMAIN pc
  /\ pc[r] = "hash"
  /\ Outcome(ok)
  /\ IF ok
     THEN /\ Upd(r, [run[r] EXCEPT !.hash = HashOf(run[r].input),
                                   !.findCut = settings.expirationDate,
                                   !.nFind = @ + 1])
          /\ Goto(r, "find")
          /\ UNCHANGED gc
     ELSE JustRunMachine(r, run[r], "hash", configuredInputs)
  /\ UNCHANGED <<now, store, settings, configuredInputs, builtSettings>>

\* the find's callback with an error
FindFails(r) ==
  /\ r \in DOMAIN pc
  /\ pc[r] = "find"
  /\ Outcome(FALSE)
  /\ JustRunMachine(r, [run[r] EXCEPT !.findRes = "err"], "find",
                    configuredInputs)
  /\ UNCHANGED <<now, store, settings, configuredInputs, builtSettings>>

\* faulty variant: the test of the data field is inverted
IsHitInverted(e) == e # NoEntry /\ e.data = Undefined

\* cached.length && typeof cached[0].data !== 'undefined'
IsHit(e) == e # NoEntry /\ e.data # Undefined

\* the find's callback with a result: a hit goes to the caller, a miss runs
FindAnswers(r) ==
  /\ r \in DOMAIN pc
  /\ pc[r] = "find"
  /\ LET res == FindResult(store, run[r].hash, run[r].findCut) IN
     \E e \in IF res = {} THEN {NoEntry} ELSE res :
       IF IsHit(e)
       THEN \* switchback(self._configuredExits)(null, newestCacheEntry.data)
            /\ Upd(r, [run[r] EXCEPT
                         !.findRes = "hit", !.found = e,
                         !.delivered = Append(@, [exit |-> "success", data |-> e.data])])
            /\ Goto(r, "done")
            /\ UNCHANGED gc
       ELSE JustRunMachine(r, [run[r] EXCEPT !.findRes = "miss", !.found = e],
                           NoErr, configuredInputs)
  /\ UNCHANGED <<now, store, settings, faults, configuredInputs, builtSettings>>

\* faulty variant: the wrapped exit forwards at once, beside issuing the create
OnCacheableExitEager(rec, x, d) ==
  [rec EXCEPT !.travExit = x, !.travData = d,
              !.createHash = rec.hash, !.createData = d, !.nCreate = @ + 1,
              !.delivered = Append(@, [exit |-> x, data |-> d])]

\* m[exitName] = function (data) { _cache.model.create({hash, data}) ... }
OnCacheableExit(rec, x, d) ==
  [rec EXCEPT !.travExit = x, !.travData = d,
              !.createHash = rec.hash, !.createData = d, !.nCreate = @ + 1]

\* the machine's fn traverses exit x with data d
Traverse(r, x, d) ==
  /\ r \in DOMAIN pc
  /\ pc[r] = "fn"
  /\ IF x = run[r].cacheExit
     THEN /\ Upd(r, OnCacheableExit(run[r], x, d))
          /\ Goto(r, "create")
     ELSE /\ Upd(r, [run[r] EXCEPT !.travExit = x, !.travData = d,
                        !.delivered = Append(@, [exit |-> x, data |-> d])])
          /\ Goto(r, "done")
  /\ UNCHANGED <<now, store, settings, gc, faults, configuredInputs,
                 builtSettings>>

\* faulty variant: the create's callback returns on an error
OnCreatedOrDrop(rec, ok) ==
  IF ok
  THEN [rec EXCEPT !.createRes = "ok",
                   !.delivered = Append(@, [exit |-> rec.travExit,
                                            data |-> rec.createData])]
  ELSE [Warn(rec, "create") EXCEPT !.createRes = "err"]

\* function(err) { if (err) { self.warn(err); } fn(data); }
OnCreated(rec, ok) ==
  [Warn(rec, IF ok THEN NoErr ELSE "create") EXCEPT
     !.createRes = IF ok THEN "ok" ELSE "err",
     !.delivered = Append(@, [exit |-> rec.travExit, data |-> rec.createData])]

\* faulty variant: the result is forwarded only once garbage collection is over
CreateCallbackRunsAfterGc(r) == pc[r] = "create" /\ gc[r] = "done"

\* the create's callback runs when the store answers, whatever else is pending
CreateCallbackRuns(r) == pc[r] = "create"

\* the create's callback: warn on an error, then fn(data)
CreateAnswer(r, ok) ==
  /\ r \in DOMAIN pc
  /\ CreateCallbackRuns(r)
  /\ Outcome(ok)
  /\ IF ok
     THEN \E t \in now..MaxTime :
            /\ Clock(t)
            /\ store' = store \cup {[id |-> 10 + r, hash |-> run[r].createHash,
                                     data |-> run[r].createData, createdAt |-> t]}
     ELSE UNCHANGED <<now, store>>
  /\ Upd(r, OnCreated(run[r], ok))
  /\ Goto(r, "done")
  /\ UNCHANGED <<settings, gc, configuredInputs, builtSettings>>

\* faulty variant: the answer of a failed count is compared all the same
OverBufferDespiteErr(ok, n) == n > settings.maxOldEntriesBuffer

\* numOldCacheEntries > _cache.maxOldEntriesBuffer: false when the count
\* failed, numOldCacheEntries being undefined
OverBuffer(ok, n) == ok /\ n > settings.maxOldEntriesBuffer

\* the count's callback: warn on an error; destroy when over the buffer
CountAnswer(r, ok) ==
  /\ r \in DOMAIN pc
  /\ gc[r] = "count"
  /\ Outcome(ok)
  /\ LET n == CountResult(store, run[r].countHash, run[r].countCut) IN
     IF OverBuffer(ok, n)
     THEN /\ Upd(r, [run[r] EXCEPT !.destroyCut = settings.expirationDate,
                                   !.destroySkip = settings.maxOldEntriesBuffer,
                                   !.nDestroy = @ + 1])
          /\ GcGoto(r, "destroy")
     ELSE /\ Upd(r, Warn(run[r], IF ok THEN NoErr ELSE "count"))
          /\ GcGoto(r, "done")
  /\ UNCHANGED <<now, store, settings, pc, configuredInputs, builtSettings>>

\* the destroy's callback: warn on an error
DestroyAnswer(r, ok) ==
  /\ r \in DOMAIN pc
  /\ gc[r] = "destroy"
  /\ Outcome(ok)
  /\ \E k \in DestroyKeeps(store, run[r].countHash, run[r].destroyCut,
                           run[r].destroySkip) :
       /\ store' = IF ok
                   THEN {e \in store :
                           StaleWhere(e, run[r].countHash, run[r].destroyCut)
                              => e \in k}
                   ELSE store
       /\ Upd(r, Warn(run[r], IF ok THEN NoErr ELSE "destroy"))
  /\ GcGoto(r, "done")
  /\ UNCHANGED <<now, settings, pc, configuredInputs, builtSettings>>

Next ==
  \/ \E r \in AllRuns, inp \in Inputs : Exec(r, inp)
  \/ \E r \in AllRuns, ok \in BOOLEAN : HashAnswer(r, ok)
  \/ \E r \in AllRuns : FindFails(r)
  \/ \E r \in AllRuns : FindAnswers(r)
  \/ \E r \in AllRuns, t \in Traversals : Traverse(r, t[1], t[2])
  \/ \E r \in AllRuns, ok \in BOOLEAN : CreateAnswer(r, ok)
  \/ \E r \in AllRuns, ok \in BOOLEAN : CountAnswer(r, ok)
  \/ \E r \in AllRuns, ok \in BOOLEAN : DestroyAnswer(r, ok)

Spec == Init /\ [][Next]_vars

SpecLater == InitLater /\ [][Next]_vars

SpecOverride == InitOverride /\ [][Next]_vars

\* A create that was issued is answered: the store is asked for nothing more.
\* Nothing is assumed of the machine's fn, of count or of destroy.
FairSpec ==
  Spec /\ \A r \in Runs : WF_vars(\E ok \in BOOLEAN : CreateAnswer(r, ok))

\* ================================================================ claims
Started(r)   == pc[r] # "idle"
Delivered(r) == run[r].delivered # <<>>
ValidStore   == settings.present /\ {"find", "create"} \subseteq settings.caps

\* C1 -- Hit correctness: when the find of a run returns a first entry whose
\* data is defined, the caller receives exactly that entry's data, once, and
\* the machine's fn is not invoked in that run.
HitCorrectness ==
  \A r \in Runs :
    (run[r].found # NoEntry /\ run[r].found.data # Undefined)
      => /\ run[r].delivered = <<[exit |-> "success", data |-> run[r].found.data]>>
         /\ run[r].nFn = 0
         /\ pc[r] = "done"

HitWitness ==
  \E r \in Runs :
    /\ run[r].found \in {E1, E2, E3, E4}
    /\ run[r].delivered = <<[exit |-> "success", data |-> run[r].found.data]>>
    /\ run[r].nFn = 0

\* C2 -- Miss-then-write: a run with a derived hash whose fn traverses the
\* cacheable exit with result r issues exactly one create, with the run's hash
\* and data r, and once the create has answered (with or without an error) the
\* caller's continuation for that exit has received r, once.
MissThenWrite ==
  \A r \in Runs :
    (run[r].hash # Undefined /\ run[r].travExit = settings.exit)
      => /\ run[r].nCreate = 1
         /\ run[r].createHash = HashOf(run[r].input)
         /\ run[r].createData = run[r].travData
         /\ run[r].createRes = "none" => pc[r] = "create"
         /\ run[r].createRes # "none" =>
              /\ pc[r] = "done"
              /\ run[r].delivered =
                   <<[exit |-> settings.exit, data |-> run[r].travData]>>

\* a cold store, one run whose create succeeded and one whose create failed,
\* both delivered
MissThenWriteWitness ==
  \E r, q \in Runs :
    /\ run[r].createRes = "ok" /\ run[q].createRes = "err"
    /\ run[r].staleAtMiss = {} /\ run[r].found = NoEntry
    /\ Delivered(r) /\ Delivered(q)
    /\ run[q].delivered[1].data = run[q].travData

\* C3 -- Ordering within one run: the machine's fn is not invoked before the
\* run's find has answered (miss or error), and nothing is delivered through
\* the cacheable exit before the create issued for it has answered.
OrderingWithinRun ==
  \A r \in Runs :
    /\ (run[r].nFn > 0 /\ run[r].nFind > 0) => run[r].findRes \in {"miss", "err"}
    /\ (Delivered(r) /\ run[r].nCreate > 0) => run[r].createRes \in {"ok", "err"}

OrderingWitness ==
  \E r \in Runs :
    /\ run[r].findRes = "miss" /\ run[r].nFn = 1
    /\ run[r].createRes = "ok" /\ Delivered(r)

\* C5 -- Disabled cache: without cache settings, or with a store that does not
\* expose both find and create, every started run has invoked the machine's fn
\* and has called none of find, create, count and destroy.
DisabledCache ==
  ~ValidStore =>
    \A r \in Runs :
      Started(r) =>
        /\ run[r].nFn = 1
        /\ run[r].nFind = 0 /\ run[r].nCreate = 0
        /\ run[r].nCount = 0 /\ run[r].nDestroy = 0
        /\ gc[r] = "none"
        /\ store \in InitStores

\* two invocations in a row, with a store that exposes find only
DisabledCacheWitness ==
  /\ settings.present /\ settings.caps = {"find"}
  /\ \A r \in Runs : pc[r] = "done" /\ run[r].nFn = 1

\* C4 -- Fallback on error: a run of a valid store whose find failed has
\* invoked the machine's fn exactly once, has raised nothing fatal, has sent
\* the find error to the warning channel, and delivers to the caller exactly
\* the exit the fn traversed.
FallbackOnError ==
  \A r \in Runs :
    (ValidStore /\ run[r].findRes = "err")
      => /\ run[r].nFn = 1
         /\ ~run[r].threw
         /\ "find" \in run[r].warns
         /\ pc[r] = "done" =>
              run[r].delivered =
                <<[exit |-> run[r].travExit, data |-> run[r].travData]>>

\* C6 -- Freshness boundary: for a run with cutoff c, an entry of the run's
\* hash created at c is not matched by the run's find and is matched by its
\* count and destroy; an entry created after c is matched by the find and by
\* neither count nor destroy; no entry is on both sides or on none.
Fresh(r, e) == FindWhere(e, run[r].hash, run[r].findCut)
StaleForCount(r, e) == StaleWhere(e, run[r].countHash, run[r].countCut)
StaleForDestroy(r, e) == StaleWhere(e, run[r].countHash, run[r].destroyCut)

FreshnessBoundary ==
  \A r \in Runs :
    \A e \in store :
      (run[r].nFind > 0 /\ e.hash = run[r].hash) =>
        /\ e.createdAt = run[r].cutoff =>
             /\ ~Fresh(r, e)
             /\ run[r].nCount > 0 => StaleForCount(r, e)
             /\ run[r].nDestroy > 0 => StaleForDestroy(r, e)
        /\ e.createdAt > run[r].cutoff =>
             /\ Fresh(r, e)
             /\ run[r].nCount > 0 => ~StaleForCount(r, e)
             /\ run[r].nDestroy > 0 => ~StaleForDestroy(r, e)
        /\ run[r].nCount > 0 => (Fresh(r, e) <=> ~StaleForCount(r, e))

\* C7 -- GC retention: when the garbage collection of a run that missed
\* completes without an error, and the store held N stale entries of the run's
\* hash at the miss: if N > maxOldEntriesBuffer, exactly N - maxOldEntriesBuffer
\* of them are gone, none of them newer than one that is left, and
\* maxOldEntriesBuffer of them are left; otherwise no destroy was issued.
\* Stated of the runs no other run's destroy interferes with: the store is
\* shared, and this is the store as that one collection leaves it.
GcCompletes(r) ==
  /\ gc[r] # "done" /\ gc'[r] = "done"
  /\ run'[r].findRes = "miss"
  /\ run'[r].warns \cap {"count", "destroy"} = {}
  /\ \A q \in Runs \ {r} : run[q].nDestroy = 0

Retained(r) ==
  LET N    == Cardinality(run[r].staleAtMiss)
      B    == settings.maxOldEntriesBuffer
      gone == run[r].staleAtMiss \ store'
      kept == run[r].staleAtMiss \cap store'
  IN  IF N > B
      THEN /\ Cardinality(gone) = N - B
           /\ Cardinality(kept) = B
           /\ \A g \in gone, k \in kept : g.createdAt <= k.createdAt
      ELSE run'[r].nDestroy = 0

GcRetention == [][\A r \in Runs : GcCompletes(r) => Retained(r)]_vars

\* C8 -- Hash failure means no caching: a run of a valid store whose hash
\* derivation failed has emitted a warning, has invoked the machine's fn
\* (unless launching the garbage collector threw), and has issued no find, no
\* create, no count and no destroy.
HashFailed(r) ==
  run[r].enabled /\ pc[r] \notin {"idle", "hash"} /\ run[r].hash = Undefined

HashFailureNoStoreOps ==
  \A r \in Runs :
    HashFailed(r) =>
      /\ "hash" \in run[r].warns
      /\ ~run[r].threw => run[r].nFn = 1
      /\ run[r].nFind = 0 /\ run[r].nCreate = 0
      /\ run[r].nCount = 0 /\ run[r].nDestroy = 0

\* C9 -- One cutoff per run: the find, the count and the destroy of a run all
\* carry the cutoff computed when the run started.
OneCutoffPerRun ==
  \A r \in Runs :
    /\ run[r].nFind > 0 => run[r].findCut = run[r].cutoff
    /\ run[r].nCount > 0 => run[r].countCut = run[r].cutoff
    /\ run[r].nDestroy > 0 => run[r].destroyCut = run[r].cutoff

\* C10 -- The garbage collector never blocks the run: while count or destroy is
\* still unanswered the machine's fn has already been invoked, and a run whose
\* fn has traversed an exit has delivered to the caller or waits for the answer
\* of its create alone, whose callback can run whether count and destroy have
\* answered or not.
GcPending(r) == gc[r] \in {"count", "destroy"}
Traversed(r) == run[r].travExit # "none"

GcNeverBlocksEventually ==
  \A r \in Runs : Traversed(r) ~> (Delivered(r) /\ pc[r] = "done")

LastConfigured(r) == \A q \in Runs : q > r => pc[q] = "idle"

CacheControlStripped ==
  \A r \in Runs :
    (run[r].nFn > 0 /\ LastConfigured(r))
      => run[r].fnInputs = [val |-> run[r].input, cache |-> "absent"]

\* C12 -- Per-run override: a run configured without settings under `_cache`
\* works with the cache settings the instance was built with (store, ttl,
\* maxOldEntriesBuffer, cacheable exit, after defaults), whatever an earlier
\* run of the instance was given under `_cache`.  Stated of an instance built
\* with a valid store, where the settings are used.
SameSettings(s, t) ==
  /\ s.caps = t.caps /\ s.ttl = t.ttl
  /\ s.maxOldEntriesBuffer = t.maxOldEntriesBuffer /\ s.exit = t.exit

PerRunOverride ==
  \A r \in Runs :
    (Started(r) /\ ~Truthy(run[r].cacheInput) /\ CacheValid(builtSettings))
      => SameSettings(run[r].startSettings, Normalize(builtSettings, 0))

\* C13 -- No deduplication of concurrent misses: two runs of one hash that
\* both missed have both invoked the machine's fn; when the creates of both
\* succeeded and nothing was destroyed, the store holds an entry of each; and a
\* later run of that hash for which both entries are fresh is a hit, served
\* with the data of the newest of the two.
CreatedBy(r) ==
  {e \in store : e.id = 10 + r /\ e.hash = run[r].hash /\ e.data = run[r].createData}

ServedNewest(e, f) ==
  LET l == run[LaterRun] IN
  (l.findRes \in {"hit", "miss"} /\ l.hash = e.hash
     /\ e.createdAt > l.findCut /\ f.createdAt > l.findCut)
    => /\ l.findRes = "hit"
       /\ l.found \in {e, f}
       /\ l.found.createdAt >= e.createdAt /\ l.found.createdAt >= f.createdAt
       /\ Len(l.delivered) = 1 /\ l.delivered[1].data = l.found.data
       /\ l.nFn = 0

NoDeduplication ==
  \A r, q \in Runs :
    (r < q /\ run[r].findRes = "miss" /\ run[q].findRes = "miss"
       /\ run[r].hash = run[q].hash)
      => /\ run[r].nFn = 1 /\ run[q].nFn = 1
         /\ (run[r].createRes = "ok" /\ run[q].createRes = "ok"
               /\ \A x \in AllRuns : run[x].nDestroy = 0)
              => /\ CreatedBy(r) # {} /\ CreatedBy(q) # {}
                 /\ \A e \in CreatedBy(r), f \in CreatedBy(q) : ServedNewest(e, f)

\* C14 -- Minimum store capability: with a store that exposes find and create
\* and nothing else, every started run is eligible for caching and raises
\* nothing fatal; after a miss the machine's fn has been invoked once, and a
\* run that is over has delivered what the fn traversed.
MinimalStore == settings.present /\ settings.caps = {"find", "create"}

MinimumStoreCapability ==
  \A r \in Runs :
    (MinimalStore /\ Started(r))
      => /\ run[r].enabled
         /\ ~run[r].threw
         /\ run[r].findRes = "miss" =>
              /\ run[r].nFn = 1
              /\ pc[r] = "done" =>
                   run[r].delivered =
                     <<[exit |-> run[r].travExit, data |-> run[r].travData]>>

\* C15 -- Exit pass-through: in a run with caching enabled and a derived hash,
\* the traversal of an exit that is not the cacheable one is delivered to the
\* caller's continuation for that exit at once, with the same data, and the
\* run issues no create.
PassedThrough(r) ==
  /\ run[r].enabled /\ run[r].hash # Undefined
  /\ Traversed(r) /\ run[r].travExit # settings.exit

ExitPassThrough ==
  \A r \in Runs :
    PassedThrough(r)
      => /\ run[r].delivered =
              <<[exit |-> run[r].travExit, data |-> run[r].travData]>>
         /\ pc[r] = "done"
         /\ run[r].nCreate = 0 /\ run[r].createRes = "none"
         /\ \A e \in store : e.id # 10 + r

\* success is cached, the fn traverses error, the caller's error continuation
\* has the error and the store has nothing new
ExitPassThroughWitness ==
  \E r \in Runs :
    /\ PassedThrough(r) /\ settings.exit = "success"
    /\ run[r].findRes = "miss"
    /\ run[r].delivered = <<[exit |-> "error", data |-> "e1"]>>

\* C16 -- GC failure handling: a run issues at most one count and at most one
\* destroy; the step in which its count fails emits a warning, issues no
\* destroy and ends the collection; the step in which its destroy fails emits
\* a warning, leaves the store as it was and ends the collection; once ended, a
\* collection issues nothing more; and a run whose collection failed has
\* invoked the machine's fn and delivers what the fn traverses, waiting for
\* nothing but the answer of its create.
CountFails(r)   == gc[r] = "count" /\ gc'[r] # "count" /\ faults' # faults
DestroyFails(r) == gc[r] = "destroy" /\ gc'[r] # "destroy" /\ faults' # faults
GcFailed(r)     == run[r].warns \cap {"count", "destroy"} # {}

GcFailureStep ==
  \A r \in Runs :
    /\ CountFails(r) =>
         /\ "count" \in run'[r].warns
         /\ run'[r].nDestroy = 0 /\ gc'[r] = "done"
    /\ DestroyFails(r) =>
         /\ "destroy" \in run'[r].warns
         /\ store' = store /\ gc'[r] = "done"
    /\ gc[r] = "done" =>
         /\ gc'[r] = "done"
         /\ run'[r].nCount = run[r].nCount /\ run'[r].nDestroy = run[r].nDestroy

GcFailureState ==
  \A r \in Runs :
    /\ run[r].nCount <= 1 /\ run[r].nDestroy <= 1
    /\ GcFailed(r) =>
         /\ gc[r] = "done" /\ run[r].nFn = 1
         /\ Traversed(r) =>
              \/ /\ pc[r] = "done"
                 /\ run[r].delivered =
                      <<[exit |-> run[r].travExit, data |-> run[r].travData]>>
              \/ pc[r] = "create" /\ run[r].delivered = <<>>

GcFailureHandling == [][GcFailureStep /\ GcFailureState']_vars

\* the destroy of a run failed and its caller has the result all the same
GcFailureWitness ==
  \E r \in Runs :
    /\ "destroy" \in run[r].warns /\ run[r].nCount = 1 /\ run[r].nDestroy = 1
    /\ gc[r] = "done" /\ pc[r] = "done"
    /\ run[r].delivered = <<[exit |-> "success", data |-> "d3"]>>

\* C17 -- Hit and execution are mutually exclusive and single: a run that is
\* past its lookup (whatever the validation, the hash derivation and the find
\* gave) has either delivered a cached value without invoking the machine's fn,
\* or invoked the fn exactly once without a cached value delivered; never both,
\* never neither, never the fn twice.
PastLookup(r) == pc[r] \notin {"idle", "hash", "find"}
ServedFromCache(r) ==
  /\ run[r].findRes = "hit"
  /\ run[r].delivered = <<[exit |-> "success", data |-> run[r].found.data]>>

HitXorExecution ==
  \A r \in Runs :
    /\ run[r].nFn <= 1
    /\ PastLookup(r) => (ServedFromCache(r) <=> run[r].nFn = 0)
    /\ ServedFromCache(r) => ~Traversed(r)

\* C18 -- A cached run is observably the same as the run that filled the
\* cache: a run that hits on the entry another run created delivers to its
\* caller what that run delivered to its own, the same data through the
\* continuation of the same exit, whichever exit is the cacheable one.
HitOn(q, r) ==
  /\ run[q].findRes = "hit" /\ run[q].found.id = 10 + r
  /\ run[r].createRes = "ok"

SameAsFillingRun ==
  \A r, q \in Runs :
    HitOn(q, r) => run[q].delivered = run[r].delivered

\* C19 -- Memoization round trip: when the find of a later run answers, and an
\* earlier run with equal inputs has traversed the cacheable exit and created an
\* entry that is in the store, is the newest of its hash and is later than the
\* later run's cutoff, then the later run is a hit: its caller receives the
\* result the earlier run's fn gave (a value or no value), its fn is not
\* invoked and it creates nothing.
FindAnswersStep(q) == pc[q] = "find" /\ pc'[q] # "find" /\ faults' = faults

Memoized(r, q) ==
  /\ r < q /\ run[r].createRes = "ok" /\ run[r].input = run[q].input
  /\ \E e \in CreatedBy(r) :
       /\ e.createdAt > run[q].cutoff
       /\ \A f \in store \ {e} : f.hash = e.hash => f.createdAt < e.createdAt

RoundTripStep ==
  \A r, q \in Runs :
    (FindAnswersStep(q) /\ Memoized(r, q))
      => /\ run'[q].findRes = "hit"
         /\ Len(run'[q].delivered) = 1
         /\ run'[q].delivered[1].data = run[r].travData
         /\ run'[q].nFn = 0 /\ run'[q].nCreate = 0
         /\ pc'[q] = "done"

MemoizationRoundTrip == [][RoundTripStep]_vars

\* C20 -- GC deletion scope: in every step in which the destroy of a run
\* answers, each entry that leaves the store has the run's hash and was created
\* at or before the run's cutoff, and is not an entry the find of that run
\* matches.
DestroyStep(r) == gc[r] = "destroy" /\ gc'[r] # "destroy"

InScope(r, e) ==
  /\ e.hash = run[r].hash
  /\ e.createdAt <= run[r].cutoff
  /\ ~FindWhere(e, run[r].hash, run[r].findCut)

GcDeletionScope ==
  [][\A r \in Runs : DestroyStep(r) => \A e \in store \ store' : InScope(r, e)]_vars

====
